---- MODULE Spec2Model ----
(***************************************************************************)
(* A model of enhance_workflows.py: N8nWorkflowEnhancer, the batch editor  *)
(* that injects timeouts, retry policies, headers and two auxiliary nodes  *)
(* into the HTTP Request nodes of n8n workflow JSON files.                 *)
(*                                                                         *)
(* Python strings are sequences of one-character strings, so that          *)
(* `keyword in s` is a real substring search and s.lower() a real mapping. *)
(* JSON values are tagged records [kind |-> ...], so that an absent key, a *)
(* null, a mapping and a value that is no mapping stay distinct.           *)
(***************************************************************************)
EXTENDS Integers, Sequences, FiniteSets, TLC

VARIABLES
    \* get_timeout_config / get_retry_config (SpecClassify)
    node_name,          \* the node_name argument
    url,                \* the url argument: a JSON string or null
    called,             \* which function has returned: "none", "timeout", "retry"
    timeout,            \* get_timeout_config's return value
    retry_config,       \* get_retry_config's return value
    \* get_enhanced_headers (SpecHeaders)
    existing_headers,   \* the existing_headers argument
    enhanced_headers,   \* the outcome: [raised, headers]
    \* enhance_http_node (SpecNode)
    node,               \* the node argument, as it was before the call
    enhanced,           \* the outcome: [called, raised, ret, node]
    \* enhance_workflow / enhance_all_workflows (Spec, SpecBatch)
    disk,               \* path -> content of the file
    orig,               \* path -> content of the file before the first run
    workflow_files,     \* glob's result, in discovery order
    all_improvements,   \* the summaries enhance_all_workflows has collected
    pc,                 \* position of the running enhance_workflow call
    cur,                \* index in workflow_files of the file being processed
    workflow,           \* the loaded document (in memory)
    improvements,       \* the summary under construction
    ni,                 \* index of the next node of the `for node in nodes` loop
    runs,               \* completed calls of enhance_all_workflows
    succ,               \* path -> successful enhance_workflow calls so far
    opened_w            \* path -> the file was ever opened for writing

clsVars == <<node_name, url, called, timeout, retry_config>>
hdrVars == <<existing_headers, enhanced_headers>>
nodeVars == <<node, enhanced>>
wfVars == <<disk, orig, workflow_files, all_improvements, pc, cur, workflow,
            improvements, ni, runs, succ, opened_w>>
vars == <<clsVars, hdrVars, nodeVars, wfVars>>

----------------------------------------------------------------------------
(* Bounds *)

\* fragments joined into a node name or a URL
MaxWords == 2
\* nodes of a document of Spec
MaxNodes == 2
\* calls of enhance_all_workflows
MaxRuns == 2
\* files of the directory of SpecBatch
MaxFiles == 2

----------------------------------------------------------------------------
(* Python strings *)

UpperAlpha == <<"A","B","C","D","E","F","G","H","I","J","K","L","M",
                "N","O","P","Q","R","S","T","U","V","W","X","Y","Z">>
LowerAlpha == <<"a","b","c","d","e","f","g","h","i","j","k","l","m",
                "n","o","p","q","r","s","t","u","v","w","x","y","z">>

\* the lower-case letter of every upper-case letter
LowerOf == [c \in {UpperAlpha[k] : k \in 1..26} |->
               LowerAlpha[CHOOSE k \in 1..26 : UpperAlpha[k] = c]]

\* str.lower() on one character
LowerChar(c) == IF c \in DOMAIN LowerOf THEN LowerOf[c] ELSE c

\* str.lower()
Lower(s) == [k \in 1..Len(s) |-> LowerChar(s[k])]

\* `needle in hay` for two strings
Contains(hay, needle) ==
    \E k \in 0..(Len(hay) - Len(needle)) :
        \A j \in 1..Len(needle) : hay[k + j] = needle[j]

\* any(keyword in s for keyword in keywords)
AnyIn(keywords, s) == \E kw \in keywords : Contains(s, kw)

kw_openai == <<"o","p","e","n","a","i">>
kw_gpt == <<"g","p","t">>
kw_ai == <<"a","i">>
kw_ml == <<"m","l">>
kw_email == <<"e","m","a","i","l">>
kw_sendgrid == <<"s","e","n","d","g","r","i","d">>
kw_mail == <<"m","a","i","l">>
kw_webhook == <<"w","e","b","h","o","o","k">>
kw_callback == <<"c","a","l","l","b","a","c","k">>
kw_dashboard == <<"d","a","s","h","b","o","a","r","d">>
kw_twitter == <<"t","w","i","t","t","e","r">>
kw_facebook == <<"f","a","c","e","b","o","o","k">>
kw_linkedin == <<"l","i","n","k","e","d","i","n">>
kw_instagram == <<"i","n","s","t","a","g","r","a","m">>
kw_slack == <<"s","l","a","c","k">>
kw_shopify == <<"s","h","o","p","i","f","y">>
kw_amazon == <<"a","m","a","z","o","n">>
kw_ebay == <<"e","b","a","y">>
kw_critical == <<"c","r","i","t","i","c","a","l">>
kw_important == <<"i","m","p","o","r","t","a","n","t">>
kw_sync == <<"s","y","n","c">>
kw_notification == <<"n","o","t","i","f","i","c","a","t","i","o","n">>
kw_alert == <<"a","l","e","r","t">>

----------------------------------------------------------------------------
(* JSON values *)

JAbsent == [kind |-> "absent"]          \* the key is not in the mapping
JNull == [kind |-> "null"]              \* null / None
JStr(s) == [kind |-> "str", s |-> s]    \* a string

\* `url.lower() if url else ""`: None and "" are falsy
UrlLower(u) == IF u.kind = "str" THEN Lower(u.s) ELSE <<>>

----------------------------------------------------------------------------
(* Classification rules *)

RetryPolicy(n, w) == [enabled |-> TRUE, maxAttempts |-> n, waitBetween |-> w]

\* get_timeout_config with the e-commerce rule tried before the slack rule
get_timeout_config_ecommerce_first(name, u) ==
    LET node_lower == Lower(name)
        url_lower == UrlLower(u)
    IN  IF AnyIn({kw_openai, kw_gpt, kw_ai, kw_ml}, node_lower) THEN 30000
        ELSE IF AnyIn({kw_email, kw_sendgrid, kw_mail}, node_lower) THEN 15000
        ELSE IF AnyIn({kw_webhook, kw_callback, kw_dashboard}, node_lower) THEN 15000
        ELSE IF AnyIn({kw_twitter, kw_facebook, kw_linkedin, kw_instagram}, url_lower)
             THEN 20000
        ELSE IF AnyIn({kw_shopify, kw_amazon, kw_ebay}, url_lower) THEN 25000
        ELSE IF Contains(node_lower, kw_slack) \/ Contains(url_lower, kw_slack)
             THEN 10000
        ELSE 15000

get_timeout_config(name, u) ==
    LET node_lower == Lower(name)
        url_lower == UrlLower(u)
    IN  IF AnyIn({kw_openai, kw_gpt, kw_ai, kw_ml}, node_lower) THEN 30000
        ELSE IF AnyIn({kw_email, kw_sendgrid, kw_mail}, node_lower) THEN 15000
        ELSE IF AnyIn({kw_webhook, kw_callback, kw_dashboard}, node_lower) THEN 15000
        ELSE IF AnyIn({kw_twitter, kw_facebook, kw_linkedin, kw_instagram}, url_lower)
             THEN 20000
        ELSE IF Contains(node_lower, kw_slack) \/ Contains(url_lower, kw_slack)
             THEN 10000
        ELSE IF AnyIn({kw_shopify, kw_amazon, kw_ebay}, url_lower) THEN 25000
        ELSE 15000

\* get_retry_config with the AI rule tried before the critical rule
get_retry_config_ai_first(name, u) ==
    LET node_lower == Lower(name)
    IN  IF AnyIn({kw_openai, kw_gpt, kw_ai}, node_lower)
             THEN RetryPolicy(2, 3000)
        ELSE IF AnyIn({kw_critical, kw_important, kw_sync}, node_lower)
             THEN RetryPolicy(3, 2000)
        ELSE IF AnyIn({kw_notification, kw_alert, kw_email}, node_lower)
             THEN RetryPolicy(3, 1000)
        ELSE RetryPolicy(3, 1500)

get_retry_config(name, u) ==
    LET node_lower == Lower(name)
    IN  IF AnyIn({kw_critical, kw_important, kw_sync}, node_lower)
             THEN RetryPolicy(3, 2000)
        ELSE IF AnyIn({kw_openai, kw_gpt, kw_ai}, node_lower)
             THEN RetryPolicy(2, 3000)
        ELSE IF AnyIn({kw_notification, kw_alert, kw_email}, node_lower)
             THEN RetryPolicy(3, 1000)
        ELSE RetryPolicy(3, 1500)

----------------------------------------------------------------------------
(* Inputs of the classification rules: names and URLs joined from fragments *)

FetchOpenAICompletion == <<"F","e","t","c","h"," ","O","p","e","n","A","I"," ",
                           "C","o","m","p","l","e","t","i","o","n">>
CriticalOpenaiSync == <<"c","r","i","t","i","c","a","l","-","o","p","e","n","a","i",
                        "-","s","y","n","c">>
SendEmail == <<"S","e","n","d"," ","E","m","a","i","l">>
NotifyTeam == <<"N","o","t","i","f","y"," ","T","e","a","m">>
SendGridWord == <<"S","e","n","d","G","r","i","d">>
SlackWord == <<"S","l","a","c","k">>
WebhookWord == <<"W","e","b","h","o","o","k">>
AlertWord == <<"A","l","e","r","t">>
UrlOpenAI == <<"h","t","t","p","s",":","/","/","a","p","i",".","o","p","e","n","a","i",
               ".","c","o","m","/","v","1","/">>
UrlSlack == <<"h","o","o","k","s",".","s","l","a","c","k",".","c","o","m">>
UrlTwitter == <<"a","p","i",".","T","w","i","t","t","e","r",".","c","o","m">>
UrlShopify == <<"s","h","o","p","i","f","y",".","d","e","v">>

NameWords == {FetchOpenAICompletion, CriticalOpenaiSync, SendEmail, NotifyTeam,
              SendGridWord, SlackWord, WebhookWord, AlertWord}
UrlWords == {UrlOpenAI, UrlSlack, UrlTwitter, UrlShopify}

RECURSIVE Join(_, _)
Join(ws, sep) ==
    IF ws = <<>> THEN <<>>
    ELSE IF Len(ws) = 1 THEN ws[1]
    ELSE ws[1] \o sep \o Join(Tail(ws), sep)

SeqsUpTo(S, n) == UNION {[1..k -> S] : k \in 0..n}

Names == {Join(ws, <<" ">>) : ws \in SeqsUpTo(NameWords, MaxWords)}
Urls == {JNull} \cup {JStr(Join(ws, <<"/">>)) : ws \in SeqsUpTo(UrlWords, MaxWords)}

NoRetry == [enabled |-> FALSE, maxAttempts |-> 0, waitBetween |-> 0]

----------------------------------------------------------------------------
(* SpecClassify: the two classification functions on every name and URL *)

InitClassifyVars ==
    /\ called = "none"
    /\ timeout = 0
    /\ retry_config = NoRetry

CallGetTimeoutConfig ==
    /\ called = "none"
    /\ called' = "timeout"
    /\ timeout' = get_timeout_config(node_name, url)
    /\ UNCHANGED <<node_name, url, retry_config, hdrVars, nodeVars, wfVars>>

CallGetRetryConfig ==
    /\ called = "none"
    /\ called' = "retry"
    /\ retry_config' = get_retry_config(node_name, url)
    /\ UNCHANGED <<node_name, url, timeout, hdrVars, nodeVars, wfVars>>

----------------------------------------------------------------------------
(* Header normalizer *)

\* A JSON value that is no mapping and no null: falsy ([], "", 0, false) or
\* truthy (a non-empty list or string, a number).
JFalsy == [kind |-> "falsy"]
JTruthy == [kind |-> "truthy"]
\* A header mapping: m is a function from header names to header values.
JMap(m) == [kind |-> "map", m |-> m]
EmptyMap == [k \in {} |-> ""]

\* `headers[key] = value` without the `if key not in headers`
SetDefault_overwrite(h, key, value) ==
    [k \in DOMAIN h \cup {key} |-> IF k = key THEN value ELSE h[k]]

\* `if key not in headers: headers[key] = value`
SetDefault(h, key, value) ==
    IF key \in DOMAIN h THEN h
    ELSE [k \in DOMAIN h \cup {key} |-> IF k = key THEN value ELSE h[k]]

\* The four `if ... not in headers` statements, in the source's order.
AddDefaultHeaders(h) ==
    SetDefault(
      SetDefault(
        SetDefault(
          SetDefault(h, "User-Agent", "n8n-workflow/1.0"),
          "Content-Type", "application/json"),
        "Accept", "application/json, text/plain, */*"),
      "Connection", "keep-alive")

\* get_enhanced_headers(existing_headers, url): [raised, headers].
\* `existing_headers.copy() if existing_headers else {}`: a falsy value of any
\* type becomes {}; a truthy value that is no mapping has no .copy() (str,
\* number) or refuses `headers[key] = value` (list), and the call raises.
get_enhanced_headers(existing, u) ==
    IF existing.kind = "map"
    THEN [raised |-> FALSE, headers |-> AddDefaultHeaders(existing.m)]
    ELSE IF existing.kind = "truthy"
    THEN [raised |-> TRUE, headers |-> EmptyMap]
    ELSE [raised |-> FALSE, headers |-> AddDefaultHeaders(EmptyMap)]

DefaultHeaderKeys == {"User-Agent", "Content-Type", "Accept", "Connection"}
HeaderKeys == DefaultHeaderKeys \cup {"Authorization"}
HeaderValues == {"custom", "application/json"}
HeaderMaps == UNION {[S -> HeaderValues] : S \in SUBSET HeaderKeys}
HeaderInputs == {JNull, JFalsy, JTruthy} \cup {JMap(m) : m \in HeaderMaps}

NoHeaders == [called |-> FALSE, raised |-> FALSE, headers |-> EmptyMap]

InitHeaderVars == enhanced_headers = NoHeaders

CallGetEnhancedHeaders ==
    /\ ~enhanced_headers.called
    /\ enhanced_headers' =
         [called |-> TRUE] @@ get_enhanced_headers(existing_headers, JNull)
    /\ UNCHANGED <<existing_headers, clsVars, nodeVars, wfVars>>

----------------------------------------------------------------------------
(* Nodes *)

HttpType == "n8n-nodes-base.httpRequest"
CodeType == "n8n-nodes-base.code"
DefaultNodeName == <<"H","T","T","P"," ","R","e","q","u","e","s","t">>

JInt(n) == [kind |-> "int", n |-> n]
JObj(v) == [kind |-> "obj", v |-> v]

\* A `parameters` mapping: the three entries the enhancer reads, and `rest`,
\* which stands for every other entry of the mapping (method, jsCode, ...).
Params(u, o, h, r) ==
    [kind |-> "map", url |-> u, options |-> o, headers |-> h, rest |-> r]
\* An `options` mapping: the four entries the enhancer writes, and `rest`.
Options(t, rt, rs, rd, r) ==
    [kind |-> "map", timeout |-> t, retry |-> rt, response |-> rs,
     redirect |-> rd, rest |-> r]
\* A node: `rest` stands for typeVersion, position and every other entry;
\* onError is "absent" when the node has no such entry.
Node(i, t, n, p, e, r) ==
    [id |-> i, type |-> t, name |-> n, parameters |-> p, onError |-> e, rest |-> r]

\* the {} of node.get('parameters', {}) and of parameters.get('options', {})
EmptyParams == Params(JAbsent, JAbsent, JAbsent, "")
EmptyOptions == Options(JAbsent, JAbsent, JAbsent, JAbsent, "")

ResponseConfig == JObj([response |-> [neverError |-> FALSE]])
RedirectConfig == JObj([followRedirects |-> TRUE, maxRedirects |-> 3])

\* SetOptions without `options['redirect'] = ...`
SetOptions_no_redirect(options, name, u) ==
    [options EXCEPT !.timeout = JInt(get_timeout_config(name, u)),
                    !.retry = JObj(get_retry_config(name, u)),
                    !.response = ResponseConfig]

\* The four `options[...] = ...` assignments of enhance_http_node.
SetOptions(options, name, u) ==
    [options EXCEPT !.timeout = JInt(get_timeout_config(name, u)),
                    !.retry = JObj(get_retry_config(name, u)),
                    !.response = ResponseConfig,
                    !.redirect = RedirectConfig]

\* dict.get(key, default): the default only when the key is absent
GetOr(v, default) == IF v.kind = "absent" THEN default ELSE v

\* enhance_http_node past its type check: [raised, ret, node], node being
\* the argument as the call leaves it (it is mutated in place, also when the
\* call raises).
EnhanceEligible(n) ==
    LET parameters == GetOr(n.parameters, EmptyParams)
        name == GetOr(n.name, JStr(DefaultNodeName))
        Raise(m) == [raised |-> TRUE, ret |-> FALSE, node |-> m]
    IN  \* parameters.get('url', ''): only a mapping has .get
        IF parameters.kind # "map" THEN Raise(n)
        ELSE
        LET u == GetOr(parameters.url, JStr(<<>>))
            options == GetOr(parameters.options, EmptyOptions)
        IN  \* node_name.lower(), url.lower(): only a string has .lower
            IF name.kind # "str" \/ u.kind = "truthy" THEN Raise(n)
            \* options['timeout'] = timeout: only a mapping takes the key
            ELSE IF options.kind # "map" THEN Raise(n)
            ELSE
            LET opts == SetOptions(options, name.s, u)
                hdr == get_enhanced_headers(
                           GetOr(parameters.headers, JMap(EmptyMap)), u)
            IN  IF hdr.raised
                THEN \* the options mapping the node already held is mutated
                     IF n.parameters.kind = "map" /\ n.parameters.options.kind = "map"
                     THEN Raise([n EXCEPT !.parameters.options = opts])
                     ELSE Raise(n)
                ELSE [raised |-> FALSE, ret |-> TRUE,
                      node |-> [n EXCEPT
                                 !.parameters =
                                     [parameters EXCEPT
                                        !.headers = JMap(hdr.headers),
                                        !.options = opts],
                                 !.onError = "continueRegularOutput"]]

\* enhance_http_node without its type check
enhance_http_node_any_type(n) == EnhanceEligible(n)

\* enhance_http_node(node)
enhance_http_node(n) ==
    IF n.type # HttpType
    THEN [raised |-> FALSE, ret |-> FALSE, node |-> n]
    ELSE EnhanceEligible(n)

----------------------------------------------------------------------------
(* SpecNode: enhance_http_node on one node of every shape *)

ParamShapes ==
    {JAbsent, JNull, JFalsy, JTruthy} \cup
    {Params(u, o, h, "method:POST") :
        u \in {JAbsent, JNull, JStr(UrlSlack)},
        o \in {JAbsent, JNull, JFalsy, JTruthy, EmptyOptions,
               Options(JInt(5000), JAbsent, JAbsent, JObj([maxRedirects |-> 0]),
                       "proxy")},
        h \in {JAbsent, JNull, JFalsy, JTruthy, JMap(EmptyMap),
               JMap([k \in {"User-Agent"} |-> "custom"])}}

NodeShapes ==
    {Node("n1", t, n, p, e, "typeVersion:4") :
        t \in {HttpType, CodeType},
        n \in {JAbsent, JStr(NotifyTeam), JStr(SendEmail)},
        p \in ParamShapes,
        e \in {"absent", "stopWorkflow"}}

NotEnhanced == [called |-> FALSE, raised |-> FALSE, ret |-> FALSE]

InitNodeVars == enhanced = NotEnhanced @@ [node |-> node]

CallEnhanceHttpNode ==
    /\ ~enhanced.called
    /\ enhanced' = [called |-> TRUE] @@ enhance_http_node(node)
    /\ UNCHANGED <<node, clsVars, hdrVars, wfVars>>

----------------------------------------------------------------------------
(* Auxiliary node generator *)

error_handler_node ==
    Node("global-http-error-handler", CodeType,
         JStr(<<"G","l","o","b","a","l"," ","H","T","T","P"," ",
                "E","r","r","o","r"," ","H","a","n","d","l","e","r">>),
         Params(JAbsent, JAbsent, JAbsent, "jsCode:Global Error Handler"),
         "absent", "typeVersion:2,position:[1800,300]")

fallback_node ==
    Node("fallback-data-provider", CodeType,
         JStr(<<"F","a","l","l","b","a","c","k"," ","D","a","t","a"," ",
                "P","r","o","v","i","d","e","r">>),
         Params(JAbsent, JAbsent, JAbsent, "jsCode:Fallback Data Provider"),
         "absent", "typeVersion:2,position:[2000,300]")

\* workflow.get('nodes', [])
NodesOf(w) == IF w.hasNodes THEN w.nodes ELSE <<>>

\* add_error_handling_nodes skipping a workflow that holds the handler already
add_error_handling_nodes_once(w) ==
    LET http_nodes == SelectSeq(NodesOf(w), LAMBDA n : n.type = HttpType)
        present == SelectSeq(NodesOf(w), LAMBDA n : n.id = "global-http-error-handler")
    IN  IF http_nodes = <<>> \/ present # <<>> THEN <<>>
        ELSE <<error_handler_node, fallback_node>>

\* add_error_handling_nodes without `if not http_nodes: return new_nodes`
add_error_handling_nodes_always(w) == <<error_handler_node, fallback_node>>

\* add_error_handling_nodes(workflow): the list of new nodes
add_error_handling_nodes(w) ==
    LET http_nodes == SelectSeq(NodesOf(w), LAMBDA n : n.type = HttpType)
    IN  IF http_nodes = <<>> THEN <<>>
        ELSE <<error_handler_node, fallback_node>>

----------------------------------------------------------------------------
(* Summary texts *)

get_timeout_reason(t) ==
    IF t >= 30000 THEN "Extended timeout for AI/ML operations"
    ELSE IF t >= 25000 THEN "Long timeout for e-commerce API operations"
    ELSE IF t >= 20000 THEN "Medium timeout for social media APIs"
    ELSE IF t >= 15000 THEN "Standard timeout for webhook/dashboard operations"
    ELSE "Quick timeout for simple operations"

get_specific_improvement(name, u) ==
    LET node_lower == Lower(name)
        url_lower == UrlLower(u)
    IN  IF Contains(node_lower, kw_openai) \/ Contains(node_lower, kw_gpt)
        THEN "Added cost-aware retry logic for AI API calls"
        ELSE IF Contains(node_lower, kw_email) \/ Contains(node_lower, kw_sendgrid)
        THEN "Enhanced email delivery reliability with retry logic"
        ELSE IF Contains(node_lower, kw_slack) \/ Contains(url_lower, kw_slack)
        THEN "Improved Slack notification reliability"
        ELSE IF AnyIn({kw_shopify, kw_amazon, kw_ebay}, url_lower)
        THEN "Added robust error handling for e-commerce API integration"
        ELSE IF Contains(node_lower, kw_webhook) \/ Contains(node_lower, kw_callback)
        THEN "Enhanced webhook reliability with proper timeout and retry"
        ELSE "Added comprehensive error handling and retry logic"

\* the `improvements` dict enhance_workflow starts from
NewImprovements(f) ==
    [file |-> f, http_nodes_enhanced |-> 0, error_nodes_added |-> 0,
     timeout_configurations |-> <<>>, retry_configurations |-> <<>>,
     specific_improvements |-> <<>>]

\* the body of `if self.enhance_http_node(node):` for the enhanced node n
RecordNode(imp, n) ==
    LET name == GetOr(n.name, JStr(DefaultNodeName)).s
        u == GetOr(n.parameters.url, JStr(<<>>))
        t == n.parameters.options.timeout.n
        r == n.parameters.options.retry.v
    IN  [imp EXCEPT
           !.http_nodes_enhanced = @ + 1,
           !.timeout_configurations =
               Append(@, [node |-> name, timeout |-> t,
                          reason |-> get_timeout_reason(t)]),
           !.retry_configurations =
               Append(@, [node |-> name, max_attempts |-> r.maxAttempts,
                          wait_between |-> r.waitBetween]),
           !.specific_improvements =
               Append(@, get_specific_improvement(name, u))]

\* the degenerate summary of the except branch
ErrorSummary(f, e) == [file |-> f, error |-> e]

----------------------------------------------------------------------------
(* Files.  disk[f] is what the text of file f decodes to: a JSON object    *)
(* with or without a "nodes" list, a JSON value that is no object, or text *)
(* that is no JSON (also a file cut short by a failed write).              *)

Doc(ns) == [kind |-> "doc", hasNodes |-> TRUE, nodes |-> ns]
NoNodesDoc == [kind |-> "doc", hasNodes |-> FALSE, nodes |-> <<>>]
ArrayDoc == [kind |-> "array"]
Garbage == [kind |-> "garbage"]

NoWorkflow == [kind |-> "none"]
NoImprovements == [file |-> 0]

\* enhance_workflow has returned `summary`: enhance_all_workflows appends it
\* and goes on with the next file, or returns after the last one.
Finish(summary) ==
    /\ all_improvements' = Append(all_improvements, summary)
    /\ workflow' = NoWorkflow
    /\ improvements' = NoImprovements
    /\ ni' = 0
    /\ IF cur < Len(workflow_files)
       THEN cur' = cur + 1 /\ pc' = "load" /\ UNCHANGED runs
       ELSE cur' = 0 /\ pc' = "idle" /\ runs' = runs + 1

\* enhance_workflow without its except branch: the exception leaves
\* enhance_all_workflows, which returns nothing
Fail_propagates(e) ==
    /\ workflow' = NoWorkflow
    /\ improvements' = NoImprovements
    /\ ni' = 0
    /\ cur' = 0 /\ pc' = "idle" /\ runs' = runs + 1
    /\ UNCHANGED all_improvements

\* the except branch of enhance_workflow
Fail(e) == Finish(ErrorSummary(workflow_files[cur], e))

\* enhance_all_workflows up to its first enhance_workflow call
EnhanceAllWorkflows ==
    /\ pc = "idle"
    /\ runs < MaxRuns
    /\ all_improvements' = <<>>
    /\ IF workflow_files = <<>>
       THEN runs' = runs + 1 /\ UNCHANGED <<pc, cur>>
       ELSE cur' = 1 /\ pc' = "load" /\ UNCHANGED runs
    /\ UNCHANGED <<disk, orig, workflow_files, workflow, improvements, ni, succ,
                   opened_w, clsVars, hdrVars, nodeVars>>

\* open(workflow_path, 'r') raises: the file cannot be read
LoadFails ==
    /\ pc = "load"
    /\ Fail("open for reading")
    /\ UNCHANGED <<disk, orig, workflow_files, succ, opened_w,
                   clsVars, hdrVars, nodeVars>>

\* json.load, the new summary, and workflow.get('nodes', [])
Load ==
    /\ pc = "load"
    /\ LET content == disk[workflow_files[cur]]
       IN  IF content.kind = "garbage" THEN Fail("json")
           ELSE IF content.kind # "doc" THEN Fail("get")
           ELSE /\ workflow' = content
                /\ improvements' = NewImprovements(workflow_files[cur])
                /\ ni' = 1
                /\ pc' = "nodes"
                /\ UNCHANGED <<all_improvements, cur, runs>>
    /\ UNCHANGED <<disk, orig, workflow_files, succ, opened_w,
                   clsVars, hdrVars, nodeVars>>

\* the loop writing the document back after every node it has handled
EnhanceNode_writes_through ==
    /\ pc = "nodes"
    /\ ni <= Len(NodesOf(workflow))
    /\ LET r == enhance_http_node(workflow.nodes[ni])
           f == workflow_files[cur]
       IN  IF r.raised
           THEN Fail("node") /\ UNCHANGED <<disk, opened_w>>
           ELSE /\ workflow' = [workflow EXCEPT !.nodes[ni] = r.node]
                /\ improvements' = IF r.ret THEN RecordNode(improvements, r.node)
                                   ELSE improvements
                /\ ni' = ni + 1
                /\ disk' = [disk EXCEPT ![f] = workflow']
                /\ opened_w' = [opened_w EXCEPT ![f] = TRUE]
                /\ UNCHANGED <<all_improvements, cur, runs, pc>>
    /\ UNCHANGED <<orig, workflow_files, succ, clsVars, hdrVars, nodeVars>>

\* one iteration of `for node in nodes`
EnhanceNode ==
    /\ pc = "nodes"
    /\ ni <= Len(NodesOf(workflow))
    /\ LET r == enhance_http_node(workflow.nodes[ni])
       IN  IF r.raised THEN Fail("node")
           ELSE /\ workflow' = [workflow EXCEPT !.nodes[ni] = r.node]
                /\ improvements' = IF r.ret THEN RecordNode(improvements, r.node)
                                   ELSE improvements
                /\ ni' = ni + 1
                /\ UNCHANGED <<all_improvements, cur, runs, pc>>
    /\ UNCHANGED <<disk, orig, workflow_files, succ, opened_w,
                   clsVars, hdrVars, nodeVars>>

\* after the loop: add_error_handling_nodes and workflow['nodes'].extend
AddErrorHandlingNodes ==
    /\ pc = "nodes"
    /\ ni > Len(NodesOf(workflow))
    /\ LET error_nodes == add_error_handling_nodes(workflow)
       IN  IF ~workflow.hasNodes THEN Fail("KeyError")
           ELSE /\ workflow' = [workflow EXCEPT !.nodes = @ \o error_nodes]
                /\ improvements' =
                       [improvements EXCEPT !.error_nodes_added = Len(error_nodes)]
                /\ pc' = "save"
                /\ UNCHANGED <<all_improvements, cur, runs, ni>>
    /\ UNCHANGED <<disk, orig, workflow_files, succ, opened_w,
                   clsVars, hdrVars, nodeVars>>

\* open(workflow_path, 'w') and json.dump succeed; the summary is returned
Save ==
    /\ pc = "save"
    /\ LET f == workflow_files[cur]
       IN  /\ disk' = [disk EXCEPT ![f] = workflow]
           /\ opened_w' = [opened_w EXCEPT ![f] = TRUE]
           /\ succ' = [succ EXCEPT ![f] = @ + 1]
    /\ Finish(improvements)
    /\ UNCHANGED <<orig, workflow_files, clsVars, hdrVars, nodeVars>>

\* open(workflow_path, 'w') raises: the file is not touched
SaveOpenFails ==
    /\ pc = "save"
    /\ Fail("open for writing")
    /\ UNCHANGED <<disk, orig, workflow_files, succ, opened_w,
                   clsVars, hdrVars, nodeVars>>

\* the write raises after open(..., 'w') has truncated the file
SaveWriteFails ==
    /\ pc = "save"
    /\ LET f == workflow_files[cur]
       IN  /\ disk' = [disk EXCEPT ![f] = Garbage]
           /\ opened_w' = [opened_w EXCEPT ![f] = TRUE]
    /\ Fail("write")
    /\ UNCHANGED <<orig, workflow_files, succ, clsVars, hdrVars, nodeVars>>

----------------------------------------------------------------------------
(* Specifications *)

CodeNode ==
    Node("n1", CodeType, JStr(AlertWord),
         Params(JAbsent, JAbsent, JAbsent, "jsCode:return items"),
         "stopWorkflow", "typeVersion:2")
\* an HTTP Request node with no parameters at all
BareHttpNode ==
    Node("n2", HttpType, JStr(NotifyTeam), JAbsent, "absent", "typeVersion:4")
\* an HTTP Request node carrying options, headers and onError of its author
AuthoredHttpNode ==
    Node("n3", HttpType, JStr(SendEmail),
         Params(JStr(UrlSlack),
                Options(JInt(5000), JAbsent, JAbsent, JAbsent, "proxy"),
                JMap([k \in {"User-Agent"} |-> "custom"]),
                "method:POST"),
         "stopWorkflow", "typeVersion:4")
\* "options": null
NullOptionsHttpNode ==
    Node("n4", HttpType, JAbsent,
         Params(JAbsent, JNull, JAbsent, "method:GET"), "absent", "typeVersion:4")
\* "headers": a non-empty list, beside an options mapping
ListHeadersHttpNode ==
    Node("n5", HttpType, JStr(WebhookWord),
         Params(JNull, EmptyOptions, JTruthy, "method:GET"), "absent",
         "typeVersion:4")

NodeSamples == {CodeNode, BareHttpNode, AuthoredHttpNode, NullOptionsHttpNode,
                ListHeadersHttpNode}

Contents == {Garbage, ArrayDoc, NoNodesDoc}
            \cup {Doc(ns) : ns \in SeqsUpTo(NodeSamples, MaxNodes)}

\* one document for every way enhance_workflow can end
BatchContents == {Garbage, NoNodesDoc, Doc(<<CodeNode>>),
                  Doc(<<BareHttpNode>>), Doc(<<CodeNode, AuthoredHttpNode>>),
                  Doc(<<BareHttpNode, NullOptionsHttpNode>>)}

IdleClassify ==
    /\ node_name = <<>>
    /\ url = JNull
    /\ InitClassifyVars
IdleHeaders ==
    /\ existing_headers = JNull
    /\ InitHeaderVars
IdleNode ==
    /\ node = CodeNode
    /\ InitNodeVars
IdleWorkflow ==
    /\ disk = <<>>
    /\ orig = <<>>
    /\ workflow_files = <<>>
    /\ all_improvements = <<>>
    /\ pc = "off"
    /\ cur = 0
    /\ workflow = NoWorkflow
    /\ improvements = NoImprovements
    /\ ni = 0
    /\ runs = 0
    /\ succ = <<>>
    /\ opened_w = <<>>

\* n files, named 1..n, found in this order
InitWorkflow(n, contents) ==
    /\ disk \in [1..n -> contents]
    /\ orig = disk
    /\ workflow_files = [k \in 1..n |-> k]
    /\ all_improvements = <<>>
    /\ pc = "idle"
    /\ cur = 0
    /\ workflow = NoWorkflow
    /\ improvements = NoImprovements
    /\ ni = 0
    /\ runs = 0
    /\ succ = [k \in 1..n |-> 0]
    /\ opened_w = [k \in 1..n |-> FALSE]

NextWorkflow ==
    \/ EnhanceAllWorkflows
    \/ LoadFails
    \/ Load
    \/ EnhanceNode
    \/ AddErrorHandlingNodes
    \/ Save
    \/ SaveOpenFails
    \/ SaveWriteFails

\* the workflow processor, run again and again on one file
Init ==
    /\ IdleClassify /\ IdleHeaders /\ IdleNode
    /\ InitWorkflow(1, Contents)
Next == NextWorkflow
Spec == Init /\ [][Next]_vars

\* the batch driver on a directory of up to MaxFiles files
InitBatch ==
    /\ IdleClassify /\ IdleHeaders /\ IdleNode
    /\ \E n \in 0..MaxFiles : InitWorkflow(n, BatchContents)
SpecBatch == InitBatch /\ [][NextWorkflow]_vars

\* get_timeout_config and get_retry_config
InitClassify ==
    /\ node_name \in Names
    /\ url \in Urls
    /\ InitClassifyVars
    /\ IdleHeaders /\ IdleNode /\ IdleWorkflow
NextClassify == CallGetTimeoutConfig \/ CallGetRetryConfig
SpecClassify == InitClassify /\ [][NextClassify]_vars

\* get_enhanced_headers
InitHeaders ==
    /\ existing_headers \in HeaderInputs
    /\ InitHeaderVars
    /\ IdleClassify /\ IdleNode /\ IdleWorkflow
NextHeaders == CallGetEnhancedHeaders
SpecHeaders == InitHeaders /\ [][NextHeaders]_vars

\* enhance_http_node
InitNode ==
    /\ node \in NodeShapes
    /\ InitNodeVars
    /\ IdleClassify /\ IdleHeaders /\ IdleWorkflow
NextNode == CallEnhanceHttpNode
SpecNode == InitNode /\ [][NextNode]_vars

----------------------------------------------------------------------------
(* Classification rules: C1, C2, C3 (SpecClassify) *)

IsAIName(nl) == AnyIn({kw_openai, kw_gpt, kw_ai, kw_ml}, nl)
IsEmailName(nl) == AnyIn({kw_email, kw_sendgrid, kw_mail}, nl)
IsCallbackName(nl) == AnyIn({kw_webhook, kw_callback, kw_dashboard}, nl)
IsSocialUrl(ul) == AnyIn({kw_twitter, kw_facebook, kw_linkedin, kw_instagram}, ul)
IsSlack(nl, ul) == Contains(nl, kw_slack) \/ Contains(ul, kw_slack)
IsEcommerceUrl(ul) == AnyIn({kw_shopify, kw_amazon, kw_ebay}, ul)
IsCriticalName(nl) == AnyIn({kw_critical, kw_important, kw_sync}, nl)

\* The timeout order the claim lists: a rule matches when the name holds one
\* of its name keywords or the URL one of its URL keywords.
TimeoutTable ==
    << [name |-> {kw_openai, kw_gpt, kw_ai, kw_ml}, url |-> {}, v |-> 30000],
       [name |-> {kw_email, kw_sendgrid, kw_mail}, url |-> {}, v |-> 15000],
       [name |-> {kw_webhook, kw_callback, kw_dashboard}, url |-> {}, v |-> 15000],
       [name |-> {}, url |-> {kw_twitter, kw_facebook, kw_linkedin, kw_instagram},
        v |-> 20000],
       [name |-> {kw_slack}, url |-> {kw_slack}, v |-> 10000],
       [name |-> {}, url |-> {kw_shopify, kw_amazon, kw_ebay}, v |-> 25000] >>

\* the retry order the claim lists
RetryTable ==
    << [name |-> {kw_critical, kw_important, kw_sync}, url |-> {},
        v |-> RetryPolicy(3, 2000)],
       [name |-> {kw_openai, kw_gpt, kw_ai}, url |-> {}, v |-> RetryPolicy(2, 3000)],
       [name |-> {kw_notification, kw_alert, kw_email}, url |-> {},
        v |-> RetryPolicy(3, 1000)] >>

\* The value of the first rule of the table that matches, `otherwise` when
\* no rule does.
FirstMatch(table, nl, ul, otherwise) ==
    LET hits == {i \in 1..Len(table) :
                    AnyIn(table[i].name, nl) \/ AnyIn(table[i].url, ul)}
    IN  IF hits = {} THEN otherwise
        ELSE table[CHOOSE i \in hits : \A j \in hits : i <= j].v

\* C1: get_timeout_config and get_retry_config each return the value of the
\* first matching rule of their own fixed order; "critical-openai-sync" gets
\* the critical retry policy, and "Fetch OpenAI Completion" gets timeout 30000
\* and retry {true, 2, 3000}.
C1_FirstMatchingRule ==
    /\ called = "timeout" =>
         /\ timeout = FirstMatch(TimeoutTable, Lower(node_name), UrlLower(url), 15000)
         /\ node_name = FetchOpenAICompletion => timeout = 30000
    /\ called = "retry" =>
         /\ retry_config = FirstMatch(RetryTable, Lower(node_name), UrlLower(url),
                                       RetryPolicy(3, 1500))
         /\ node_name = CriticalOpenaiSync => retry_config = RetryPolicy(3, 2000)
         /\ node_name = FetchOpenAICompletion => retry_config = RetryPolicy(2, 3000)

\* a name matching a critical keyword and an AI keyword got the critical policy
C1_Witness ==
    /\ called = "retry"
    /\ node_name = CriticalOpenaiSync
    /\ IsCriticalName(Lower(node_name)) /\ IsAIName(Lower(node_name))
    /\ retry_config = RetryPolicy(3, 2000)

\* needle occurs in hay at offset k
OccursAt(hay, needle, k) ==
    /\ k + Len(needle) <= Len(hay)
    /\ \A j \in 1..Len(needle) : hay[k + j] = needle[j]

\* The name names an AI/ML service: an AI/ML keyword occurs in it somewhere
\* else than inside the word "email" or "mail" ("ai" is part of both).
NamesAIService(nl) ==
    \E kw \in {kw_openai, kw_gpt, kw_ai, kw_ml} : \E k \in 0..Len(nl) :
        /\ OccursAt(nl, kw, k)
        /\ ~\E em \in {kw_email, kw_mail} : \E p \in 0..k :
               OccursAt(nl, em, p) /\ k + Len(kw) <= p + Len(em)

\* the name carries 'email' or 'mail', names no AI/ML service, and matches no
\* rule that either order puts before the e-mail rule for another reason
IsEmailOperation(nl) ==
    /\ AnyIn({kw_email, kw_mail}, nl)
    /\ ~NamesAIService(nl)
    /\ ~IsCriticalName(nl)

\* C2: a node whose name carries an email keyword and names no AI/ML service
\* is classified as an email operation: timeout 15000, retry {true, 3, 1000}.
C2_EmailIsNotAI ==
    IsEmailOperation(Lower(node_name)) =>
        /\ called = "timeout" => timeout = 15000
        /\ called = "retry" => retry_config = RetryPolicy(3, 1000)

NoNameRule(nl) == ~IsAIName(nl) /\ ~IsEmailName(nl) /\ ~IsCallbackName(nl)

\* C3 (as claimed): with 'slack' in the name or URL and no name-keyword rule
\* matching, the timeout is 10000 whatever URL keyword is present.
C3_SlackBeforeEveryUrlRule ==
    (/\ called = "timeout"
     /\ NoNameRule(Lower(node_name))
     /\ IsSlack(Lower(node_name), UrlLower(url)))
    => timeout = 10000

\* C3 (amended): with 'slack' in the name or URL and no name-keyword rule
\* matching, the timeout is 20000 when the URL holds a social-media keyword
\* and 10000 otherwise, also when the URL holds an e-commerce keyword.
C3_SlackBeforeEcommerceOnly ==
    (/\ called = "timeout"
     /\ NoNameRule(Lower(node_name))
     /\ IsSlack(Lower(node_name), UrlLower(url)))
    => timeout = IF IsSocialUrl(UrlLower(url)) THEN 20000 ELSE 10000

\* a slack node with an e-commerce URL got the slack timeout
C3_Witness ==
    /\ called = "timeout"
    /\ NoNameRule(Lower(node_name))
    /\ IsSlack(Lower(node_name), UrlLower(url))
    /\ IsEcommerceUrl(UrlLower(url))
    /\ ~IsSocialUrl(UrlLower(url))
    /\ timeout = 10000

----------------------------------------------------------------------------
(* Header normalizer: C4 (SpecHeaders) *)

HeaderDefault(k) ==
    CASE k = "User-Agent" -> "n8n-workflow/1.0"
      [] k = "Content-Type" -> "application/json"
      [] k = "Accept" -> "application/json, text/plain, */*"
      [] k = "Connection" -> "keep-alive"

\* the mapping an argument stands for: null and an empty value are {}
AsMapping(h) == IF h.kind = "map" THEN h.m ELSE EmptyMap

\* C4: header merge never overwrites: every key of the input keeps its
\* value, each of the four default keys that was absent is present with its
\* default, and no other key is added.
C4_HeaderMergeNeverOverwrites ==
    (enhanced_headers.called /\ existing_headers.kind \in {"map", "null", "absent"})
    => LET given == AsMapping(existing_headers)
           out == enhanced_headers.headers
       IN  /\ ~enhanced_headers.raised
           /\ DOMAIN out = DOMAIN given \cup DefaultHeaderKeys
           /\ \A k \in DOMAIN given : out[k] = given[k]
           /\ \A k \in DefaultHeaderKeys \ DOMAIN given : out[k] = HeaderDefault(k)

\* a caller's User-Agent was kept while the absent Connection was added
C4_Witness ==
    /\ enhanced_headers.called
    /\ existing_headers.kind = "map"
    /\ DOMAIN existing_headers.m = {"User-Agent", "Content-Type"}
    /\ existing_headers.m["User-Agent"] = "custom"
    /\ enhanced_headers.headers["User-Agent"] = "custom"
    /\ enhanced_headers.headers["Connection"] = "keep-alive"

----------------------------------------------------------------------------
(* Node enhancer and workflow processor: C5 .. C10 *)

HttpCount(ns, n) == Cardinality({i \in 1..n : ns[i].type = HttpType})

\* C5 (Spec): for a node that is no HTTP Request node, enhance_http_node
\* returns False (the node is not counted) and leaves the node as it was
\* loaded; a successful enhance_workflow writes it back as it was.
C5_NonHttpUntouched ==
    /\ pc \in {"nodes", "save"} =>
         LET loaded == NodesOf(disk[workflow_files[cur]])
         IN  /\ \A i \in 1..(ni - 1) :
                   loaded[i].type # HttpType => workflow.nodes[i] = loaded[i]
             /\ improvements.http_nodes_enhanced = HttpCount(loaded, ni - 1)
    /\ \A f \in DOMAIN disk :
         (succ[f] >= 1 /\ disk[f].kind = "doc") =>
            \A i \in 1..Len(orig[f].nodes) :
               orig[f].nodes[i].type # HttpType =>
                  disk[f].nodes[i] = orig[f].nodes[i]

\* a code node was written back untouched beside an HTTP node that changed
C5_Witness ==
    /\ succ[1] >= 1
    /\ disk[1].kind = "doc"
    /\ orig[1].nodes = <<CodeNode, AuthoredHttpNode>>
    /\ disk[1].nodes[1] = CodeNode
    /\ disk[1].nodes[2] # AuthoredHttpNode

\* the step in which enhance_workflow persists the document and returns
C6_Step ==
    (pc = "save" /\ succ' # succ) =>
       LET f == workflow_files[cur]
           before == disk[f].nodes
           after == disk'[f].nodes
           s == all_improvements'[Len(all_improvements')]
           n == Len(before)
       IN  /\ s.error_nodes_added \in {0, 2}
           /\ s.http_nodes_enhanced = HttpCount(before, n)
           /\ HttpCount(before, n) = 0 =>
                 s.error_nodes_added = 0 /\ Len(after) = n
           /\ s.http_nodes_enhanced >= 1 =>
                 /\ s.error_nodes_added = 2
                 /\ Len(after) = n + 2
                 /\ after[n + 1].id = "global-http-error-handler"
                 /\ after[n + 2].id = "fallback-data-provider"
           /\ \A i \in 1..n : after[i].id = before[i].id

\* C6 (Spec): a successful enhance_workflow appends the two auxiliary nodes
\* (error handler, then fallback provider) after all original nodes exactly
\* when it enhanced a node; error_nodes_added is 2 then and 0 otherwise.
C6_AuxiliaryIffEnhanced == [][C6_Step]_vars

\* a run enhanced a node and appended the pair
C6_Witness ==
    /\ pc = "idle" /\ runs = 1
    /\ Len(all_improvements) = 1
    /\ "error" \notin DOMAIN all_improvements[1]
    /\ all_improvements[1].http_nodes_enhanced >= 1
    /\ all_improvements[1].error_nodes_added = 2
    /\ Len(disk[1].nodes) = Len(orig[1].nodes) + 2

RECURSIVE Pairs(_)
Pairs(k) == IF k = 0 THEN <<>>
            ELSE <<error_handler_node, fallback_node>> \o Pairs(k - 1)

EnhancedOnce(ns) == [i \in 1..Len(ns) |-> enhance_http_node(ns[i]).node]

IdCount(ns, id) == Cardinality({i \in 1..Len(ns) : ns[i].id = id})

\* C7 (Spec): after k successful runs on a document with an HTTP Request
\* node, the file holds the once-enhanced original nodes followed by k
\* auxiliary pairs: k nodes of each auxiliary id.
C7_RerunAppendsOnePair ==
    \A f \in DOMAIN disk :
       (/\ succ[f] >= 1
        /\ disk[f].kind = "doc"
        /\ HttpCount(orig[f].nodes, Len(orig[f].nodes)) >= 1)
       => /\ disk[f].nodes = EnhancedOnce(orig[f].nodes) \o Pairs(succ[f])
          /\ IdCount(disk[f].nodes, "global-http-error-handler") = succ[f]
          /\ IdCount(disk[f].nodes, "fallback-data-provider") = succ[f]

\* the second run left a second pair
C7_Witness ==
    /\ succ[1] = 2
    /\ disk[1].kind = "doc"
    /\ Len(disk[1].nodes) = Len(orig[1].nodes) + 4
    /\ IdCount(disk[1].nodes, "global-http-error-handler") = 2

\* C8 (SpecNode): enhance_http_node has no error outcome: on an HTTP Request
\* node it returns True, whatever the shape of parameters, options, headers.
C8_NeverRaises ==
    (enhanced.called /\ node.type = HttpType) =>
        ~enhanced.raised /\ enhanced.ret

IsDegenerate(s) == DOMAIN s = {"file", "error"}
IsSuccess(s) == "error" \notin DOMAIN s /\ "http_nodes_enhanced" \in DOMAIN s

\* C9 (SpecBatch): a per-file failure never aborts the batch: every file
\* reached so far has its summary, in discovery order, a degenerate one or a
\* successful one, and enhance_all_workflows returns one summary per file.
C9_OneSummaryPerFile ==
    /\ pc \in {"idle", "load", "nodes", "save"}
    /\ cur >= 1 => Len(all_improvements) = cur - 1
    /\ (pc = "idle" /\ runs >= 1) => Len(all_improvements) = Len(workflow_files)
    /\ \A i \in 1..Len(all_improvements) :
          LET s == all_improvements[i]
          IN  /\ s.file = workflow_files[i]
              /\ IsDegenerate(s) \/ IsSuccess(s)
              /\ IsSuccess(s) => succ[workflow_files[i]] >= 1

\* the first file failed and the second was still enhanced
C9_Witness ==
    /\ pc = "idle" /\ runs >= 1
    /\ Len(workflow_files) = 2
    /\ Len(all_improvements) = 2
    /\ IsDegenerate(all_improvements[1])
    /\ IsSuccess(all_improvements[2])
    /\ all_improvements[2].http_nodes_enhanced >= 1

IsEnhanced(n) ==
    /\ n.parameters.kind = "map"
    /\ n.parameters.options.kind = "map"
    /\ n.parameters.options.timeout.kind = "int"
    /\ n.parameters.options.retry.kind = "obj"
    /\ n.parameters.options.response.kind = "obj"
    /\ n.parameters.options.redirect =
           JObj([followRedirects |-> TRUE, maxRedirects |-> 3])
    /\ n.parameters.headers.kind = "map"
    /\ DefaultHeaderKeys \subseteq DOMAIN n.parameters.headers.m
    /\ n.onError = "continueRegularOutput"

\* C10 (Spec): in every document a successful enhance_workflow persisted,
\* after any number of runs, every HTTP Request node has options with timeout,
\* retry, response and redirect {followRedirects: true, maxRedirects: 3}, a
\* header mapping with the four default keys, and onError set to continue.
C10_PersistedHttpNodesEnhanced ==
    \A f \in DOMAIN disk :
       (succ[f] >= 1 /\ disk[f].kind = "doc") =>
          \A i \in 1..Len(disk[f].nodes) :
             disk[f].nodes[i].type = HttpType => IsEnhanced(disk[f].nodes[i])

\* a node that had no parameters at all is enhanced on disk after two runs
C10_Witness ==
    /\ succ[1] = 2
    /\ disk[1].kind = "doc"
    /\ \E i \in 1..Len(orig[1].nodes) :
          /\ orig[1].nodes[i] = BareHttpNode
          /\ IsEnhanced(disk[1].nodes[i])

----------------------------------------------------------------------------
(* Caller-authored configuration: C11 (SpecNode) *)

\* an entry the caller had set is still there with the same value
Kept(before, after) == before.kind = "absent" \/ after = before

\* C11 (SpecNode): after enhance_http_node has enhanced a node, every entry
\* the caller had set in its parameters, in its options mapping (timeout,
\* retry, response and redirect included) and in its header mapping is still
\* present with the same value.
C11_CallerConfigKept ==
    (enhanced.called /\ enhanced.ret /\ node.parameters.kind = "map") =>
       LET p == node.parameters
           q == enhanced.node.parameters
       IN  /\ q.rest = p.rest
           /\ Kept(p.url, q.url)
           /\ p.options.kind = "map" =>
                 /\ q.options.rest = p.options.rest
                 /\ Kept(p.options.timeout, q.options.timeout)
                 /\ Kept(p.options.retry, q.options.retry)
                 /\ Kept(p.options.response, q.options.response)
                 /\ Kept(p.options.redirect, q.options.redirect)
           /\ p.headers.kind = "map" =>
                 \A k \in DOMAIN p.headers.m : q.headers.m[k] = p.headers.m[k]

----------------------------------------------------------------------------
(* Failure before the persist step: C12 (Spec) *)

\* the errors of loading, parsing and enhancing, all raised before line 362
PrePersistErrors == {"open for reading", "json", "get", "node", "KeyError"}

\* this step ends a call of enhance_workflow with the summary s
Returns(s) == all_improvements' = Append(all_improvements, s)

C12_Step ==
    /\ pc \in {"idle", "load", "nodes"} =>
          /\ disk' = disk
          /\ opened_w' = opened_w
    /\ pc \in {"load", "nodes", "save"} =>
          LET f == workflow_files[cur]
          IN  /\ (\E e \in PrePersistErrors : Returns(ErrorSummary(f, e))) =>
                    /\ disk' = disk
                    /\ opened_w' = opened_w
              /\ (disk' # disk \/ opened_w' # opened_w) =>
                    /\ pc = "save"
                    /\ ni = Len(disk[f].nodes) + 1
                    /\ improvements.error_nodes_added =
                           Len(add_error_handling_nodes(
                                   [workflow EXCEPT !.nodes =
                                        SubSeq(@, 1, Len(disk[f].nodes))]))
                    /\ Len(workflow.nodes) =
                           Len(disk[f].nodes) + improvements.error_nodes_added
                    /\ opened_w'[f]
                    /\ disk'[f] \in {workflow, Garbage}

\* C12 (Spec): a call of enhance_workflow that fails while loading, parsing or
\* enhancing a node returns the {file, error} summary without opening the
\* file for writing and without changing its content, also when earlier nodes
\* of the document were already enhanced in memory; the file is written only
\* after every node was processed and the auxiliary nodes were appended.
C12_FailureLeavesFileUntouched == [][C12_Step]_vars

\* a document whose first node was enhanced in memory and whose second node
\* made enhance_http_node raise: the summary is degenerate, the file as found
C12_Witness ==
    /\ pc = "idle"
    /\ runs = 1
    /\ orig[1] = Doc(<<AuthoredHttpNode, NullOptionsHttpNode>>)
    /\ all_improvements = <<ErrorSummary(1, "node")>>
    /\ disk[1] = orig[1]
    /\ ~opened_w[1]

====
